---- MODULE Spec2Model ----
(***************************************************************************)
(* Carrier-instruction app: the draft -> comment -> freeze lifecycle and   *)
(* the upload pipeline of dragdrop-pdf-carrier-instruction-app.js, as a    *)
(* state machine over the SQLite tables (drafts, comments, shipments,      *)
(* items, cache) and the upload requests in flight.                        *)
(*                                                                         *)
(* Node runs one handler at a time; better-sqlite3 is synchronous, so a    *)
(* handler is interrupted only at its awaits.  save, comment and freeze    *)
(* have no await: each is one action.  upload awaits three times           *)
(* (extractTextFromBuffer, the alternates, openaiExtract): it is one       *)
(* action per stretch between awaits.                                      *)
(***************************************************************************)
EXTENDS Integers, Sequences, FiniteSets, TLC

(* ------------------------------ bounds -------------------------------- *)
MaxUploads == 2   \* upload requests the model issues
MaxIds     == 6   \* ids nanoid() can hand out
MaxClock   == 1   \* ticks of the wall clock
MaxComments == 1  \* comment rows

Uploads == 1..MaxUploads
Ids     == 1..MaxIds
Times   == 0..MaxClock

(* ------------------------- values and documents ----------------------- *)
\* JSON values are strings here: Null is JSON null, NaN the float NaN, Absent
\* a key the object does not have (undefined); Numbers are the number values.
Null   == "null"
NaN    == "NaN"
Absent == "undefined"
Numbers == {"100", "250"}

\* A recovered text, by the features the code reads from it: the number of
\* anchor keywords, long digit runs and dates (scoreText), its length, whether
\* trim() leaves nothing, and which document content it carries.
NoText == [keyHits |-> 0, numbers |-> 0, dates |-> 0, len |-> 0, blank |-> TRUE, content |-> "none"]
WsText == [keyHits |-> 0, numbers |-> 0, dates |-> 0, len |-> 3, blank |-> TRUE, content |-> "none"]
TextA1 == [keyHits |-> 3, numbers |-> 2, dates |-> 1, len |-> 900, blank |-> FALSE, content |-> "A"]
TextA2 == [keyHits |-> 3, numbers |-> 2, dates |-> 1, len |-> 950, blank |-> FALSE, content |-> "A"]
TextA3 == [keyHits |-> 2, numbers |-> 1, dates |-> 1, len |-> 870, blank |-> FALSE, content |-> "A"]
TextB3 == [keyHits |-> 1, numbers |-> 0, dates |-> 0, len |-> 400, blank |-> FALSE, content |-> "B"]

\* The uploaded payloads: "A" is a PDF with a text layer, "B" a scanned PDF
\* (blank text layer, no layout text, OCR text), "X" a payload that is not a
\* PDF (pdf-parse throws on it and the poppler tools exit with an error), and
\* NoFile a request without a file part.
NoFile == "nofile"
NotPdf == "X"
Docs == {"A", "B", NotPdf}

\* What each strategy recovers from each payload when its tool succeeds.
Recovers(doc, strat) ==
  CASE doc = "A" /\ strat = "pdfParse"  -> TextA1
    [] doc = "A" /\ strat = "pdftotext" -> TextA2
    [] doc = "A" /\ strat = "ocr"       -> TextA3
    [] doc = "B" /\ strat = "pdfParse"  -> WsText
    [] doc = "B" /\ strat = "ocr"       -> TextB3
    [] OTHER                            -> NoText

\* crypto.createHash("sha256").update(buffer).digest("hex"): a function of the
\* bytes alone, distinct for distinct payloads.
Sha256(doc) == "sha-" \o doc

\* The record an ExtractedRecord-shaped mapping is reduced to: one text
\* column, one numeric column and the item list.  An entry of the item list
\* is an object or JSON null.
Item1    == [json |-> "object", product_name |-> "TiO2", net_kg |-> "100"]
Item2    == [json |-> "object", product_name |-> "", net_kg |-> Absent]
NullItem == [json |-> "null", product_name |-> Absent, net_kg |-> Absent]
DataA    == [shipment_no |-> "1234567", total_net_kg |-> "100", items |-> <<Item1>>]
DataB    == [shipment_no |-> "", total_net_kg |-> Null, items |-> <<>>]
DataE1   == [shipment_no |-> "7654321", total_net_kg |-> "250", items |-> <<Item1, Item2>>]
DataE2   == [shipment_no |-> Absent, total_net_kg |-> Null, items |-> <<Item1, NullItem>>]

\* Bodies a client posts to /save.
SaveBodies == {DataE1, DataE2}

\* parseFieldsFromText: every field present, defaulted when unmatched.
parseFieldsFromText(t) == IF t.content = "A" THEN DataA ELSE DataB

\* JSON.stringify followed by JSON.parse: NaN comes back as null (a key whose
\* value is undefined is dropped, so it stays Absent).
JsonNum(v) == IF v = NaN THEN Null ELSE v
JsonRoundTrip(d) ==
  [shipment_no |-> d.shipment_no, total_net_kg |-> JsonNum(d.total_net_kg),
   items |-> [i \in DOMAIN d.items |-> [d.items[i] EXCEPT !.net_kg = JsonNum(@)]]]

(* --------------------------- totals and quantities -------------------- *)
\* A number value of the parser: kilograms are kept in hundredths, counts in
\* units; NaN and null are values of their own.
Float(h)  == [type |-> "number", n |-> h]
FloatNaN  == [type |-> "NaN", n |-> 0]
FloatNull == [type |-> "null", n |-> 0]

\* A string is the sequence of its characters.
DigitChars == <<"0", "1", "2", "3", "4", "5", "6", "7", "8", "9">>
IsDigit(c) == \E i \in 1..10 : DigitChars[i] = c
DigitVal(c) == (CHOOSE i \in 1..10 : DigitChars[i] = c) - 1

\* the digits a string starts with
RECURSIVE DigitPrefix(_)
DigitPrefix(s) ==
  IF s = <<>> \/ ~IsDigit(Head(s)) THEN <<>> ELSE <<Head(s)>> \o DigitPrefix(Tail(s))

RECURSIVE IntOf(_)
IntOf(ds) ==
  IF ds = <<>> THEN 0
  ELSE IntOf(SubSeq(ds, 1, Len(ds) - 1)) * 10 + DigitVal(ds[Len(ds)])

\* parseFloat on a string of digits, '.' and ',': the longest prefix of the
\* form digits [ '.' digits ] is read, what follows is ignored, and NaN is
\* returned when that prefix holds no digit.  Digits after the hundredths are
\* dropped here.
parseFloat(s) ==
  LET ip   == DigitPrefix(s)
      rest == SubSeq(s, Len(ip) + 1, Len(s))
      fp   == IF rest # <<>> /\ Head(rest) = "." THEN DigitPrefix(Tail(rest)) ELSE <<>>
      d(i) == IF i <= Len(fp) THEN DigitVal(fp[i]) ELSE 0
  IN  IF ip = <<>> /\ fp = <<>> THEN FloatNaN
      ELSE Float(IntOf(ip) * 100 + d(1) * 10 + d(2))

\* parseInt(s, 10)
parseInt(s) == IF DigitPrefix(s) = <<>> THEN FloatNaN ELSE Float(IntOf(DigitPrefix(s)))

\* The quantity read with its dots kept.
KeepDots(s) == s

\* .replace(/\./g, ""): every '.' is removed
RemoveDots(s) == SelectSeq(s, LAMBDA c : c # ".")

\* .replace(",", "."): the first ',' becomes '.'
RECURSIVE CommaToPoint(_)
CommaToPoint(s) ==
  IF s = <<>> THEN <<>>
  ELSE IF Head(s) = "," THEN <<".">> \o Tail(s)
  ELSE <<Head(s)>> \o CommaToPoint(Tail(s))

\* parseFloat(x.replace(/\./g, "").replace(",", "."))
Quantity(s) == parseFloat(CommaToPoint(RemoveDots(s)))

\* A text for the totals, line by line: a line either holds a match of
\* /TOTAL\s*([0-9\.,]+)\s*KG\s*([0-9]+)\s*([0-9\.,]+)\s*KG/i, with its three
\* groups, or holds none.
TotalLine(net, pkgs, gross) == [anchor |-> TRUE, net |-> net, pkgs |-> pkgs, gross |-> gross]
OtherLine == [anchor |-> FALSE, net |-> <<>>, pkgs |-> <<>>, gross |-> <<>>]

\* RegExp.exec without the g flag: the first match in the text, 0 when none
TotalsAnchor(lines) ==
  IF \A i \in DOMAIN lines : ~lines[i].anchor THEN 0
  ELSE CHOOSE i \in DOMAIN lines :
         lines[i].anchor /\ \A j \in DOMAIN lines : lines[j].anchor => i <= j

\* The totals with 0 where the text has no anchor.
ParseTotalsZero(lines) ==
  LET t == TotalsAnchor(lines)
  IN  [total_net_kg   |-> IF t # 0 THEN Quantity(lines[t].net) ELSE Float(0),
       total_pkgs     |-> IF t # 0 THEN parseInt(lines[t].pkgs) ELSE Float(0),
       total_gross_kg |-> IF t # 0 THEN Quantity(lines[t].gross) ELSE Float(0)]

\* total_net_kg, total_pkgs and total_gross_kg of parseFieldsFromText
ParseTotals(lines) ==
  LET t == TotalsAnchor(lines)
  IN  [total_net_kg   |-> IF t # 0 THEN Quantity(lines[t].net) ELSE FloatNull,
       total_pkgs     |-> IF t # 0 THEN parseInt(lines[t].pkgs) ELSE FloatNull,
       total_gross_kg |-> IF t # 0 THEN Quantity(lines[t].gross) ELSE FloatNull]

(* ------------------------------ address split ------------------------ *)
\* A cleaned, non-empty line of an address block, by what parseShippingPoint
\* reads from it: whether the alphabetic-only pattern of line 245 matches it,
\* its length, and the groups of /(\d{3,10})\s+(.+)/ in it ("" when it does
\* not match).
AddressLine(s, alpha, len, postal, city) ==
  [s |-> s, alpha |-> alpha, len |-> len, postal |-> postal, city |-> city]
NoLine == AddressLine("", FALSE, 0, "", "")
PostalCity(l) == l.postal # ""

\* lines.slice(a, b + 1), as the list of the lines that join(", ") joins
Slice(lines, a, b) == [i \in 1..(IF b >= a THEN b - a + 1 ELSE 0) |-> lines[a + i - 1].s]

\* parseShippingPoint(block), block.split("\n").map(clean).filter(Boolean)
\* being lines
parseShippingPoint(lines) ==
  LET n    == Len(lines)
      last == lines[n]
      prev == IF n >= 2 THEN lines[n - 1] ELSE NoLine
  IN  IF n = 0
        THEN [street |-> <<>>, postal |-> "", city |-> "", country |-> ""]
      ELSE IF last.alpha /\ last.len > 2
        THEN [street  |-> Slice(lines, 1, n - 2),
              postal  |-> IF PostalCity(prev) THEN prev.postal ELSE "",
              city    |-> IF PostalCity(prev) THEN prev.city ELSE "",
              country |-> last.s]
      ELSE IF PostalCity(last)
        THEN [street |-> Slice(lines, 1, n - 1), postal |-> last.postal,
              city |-> last.city, country |-> ""]
      ELSE [street |-> Slice(lines, 1, n), postal |-> "", city |-> "", country |-> ""]

(* ------------------------------- state -------------------------------- *)
VARIABLES
  drafts,      \* table drafts: set of rows
  comments,    \* table comments: set of rows
  shipments,   \* table shipments: set of rows
  items,       \* table items: set of rows
  cache,       \* table cache: set of rows
  cacheHasLlmJson, \* schema of the cache table found at start-up
  useOpenAI,   \* USE_OPENAI_EXTRACT && OPENAI_API_KEY, and the client loaded
  up,          \* the upload requests: position and locals of each
  resp,        \* the response of the last save / comment / freeze request
  calc,        \* the last application of a function of the pipeline, with its result
  page         \* the browser page: where its Freeze & Submit handler stands

vars == <<drafts, comments, shipments, items, cache, cacheHasLlmJson, useOpenAI, up, resp, calc,
          page>>


(* ------------------------------ the store ----------------------------- *)
DraftRows(id)    == {d \in drafts : d.id = id}
HasDraft(id)     == DraftRows(id) # {}
\* db.prepare("SELECT * FROM drafts WHERE id = ?").get(id)
DraftById(id)    == CHOOSE d \in drafts : d.id = id
\* db.prepare("SELECT * FROM drafts WHERE base_hash = ? AND version_no = 1").get(hash)
DraftsV1(hash)   == {d \in drafts : d.base_hash = hash /\ d.version_no = 1}

\* nanoid(): an id no row has.
UsedIds == {d.id : d \in drafts} \cup {c.id : c \in comments}
             \cup {s.id : s \in shipments} \cup {i.id : i \in items}
FreeIds == Ids \ UsedIds
RECURSIVE NanoIds(_, _)
NanoIds(free, n) ==
  IF n = 0 \/ free = {} THEN <<>>
  ELSE LET i == CHOOSE x \in free : \A y \in free : x <= y
       IN <<i>> \o NanoIds(free \ {i}, n - 1)

\* new Date().toISOString(): the wall clock never runs backwards, so a
\* handler reads a time no earlier than any time a row holds; the reading
\* is later than every stored time until the clock reaches MaxClock.
Clock ==
  IF drafts = {} THEN {0}
  ELSE LET last == CHOOSE t \in Times : /\ \E d \in drafts : d.updated_at = t
                                       /\ \A d \in drafts : d.updated_at <= t
       IN {IF last < MaxClock THEN last + 1 ELSE MaxClock}

\* the ids a request can name: every draft's, and one no draft has
UnknownId == 0
Targets == {d.id : d \in drafts} \cup {UnknownId}

\* the page before a click on Freeze & Submit
IdlePage == [pc |-> "idle", id |-> 0, body |-> <<>>, saved |-> 0, frozen |-> 0]

\* no function applied yet
NoCalc == [fn |-> "none", arg |-> <<>>, out |-> <<>>]

NoResp == [op |-> "none", id |-> 0, seen |-> "none", code |-> 0, error |-> "", shipment_id |-> 0]
\* The answers with an unknown id reported as a conflict.
RespondNotFoundAsConflict(op, id, seen, code, error) ==
  [op |-> op, id |-> id, seen |-> seen, code |-> IF code = 404 THEN 409 ELSE code,
   error |-> IF code = 404 THEN "Draft is frozen" ELSE error, shipment_id |-> 0]

Respond(op, id, seen, code, error) ==
  [op |-> op, id |-> id, seen |-> seen, code |-> code, error |-> error, shipment_id |-> 0]
\* d.status as the handler read it, "none" when the SELECT found no row
Seen(id) == IF HasDraft(id) THEN DraftById(id).status ELSE "none"

(* --------------------------- GET /api/draft/:id ----------------------- *)
\* The body the handler answers for an existing draft; it writes nothing.
GetDraft(id) ==
  LET d == DraftById(id)
  IN  [id |-> d.id, version_no |-> d.version_no, status |-> d.status,
       fields |-> d.data_json,
       comments |-> {c \in comments : c.draft_id = id}]

(* ------------------------- POST /api/draft/:id/save ------------------- *)
\* The UPDATE also writing status = 'draft', as the INSERT does.
UpdateDraftDataAndStatus(rows, id, data, t) ==
  {IF d.id = id THEN [d EXCEPT !.data_json = JsonRoundTrip(data), !.status = "draft", !.updated_at = t]
   ELSE d : d \in rows}

\* The UPDATE as a merge: a key the new data lacks keeps its stored value.
UpdateDraftDataMerge(rows, id, data, t) ==
  {IF d.id = id
     THEN [d EXCEPT !.data_json = [JsonRoundTrip(data) EXCEPT
                                     !.shipment_no = IF @ = Absent THEN d.data_json.shipment_no ELSE @],
                    !.updated_at = t]
     ELSE d : d \in rows}

\* UPDATE drafts SET data_json = ?, updated_at = ? WHERE id = ?
UpdateDraftData(rows, id, data, t) ==
  {IF d.id = id THEN [d EXCEPT !.data_json = JsonRoundTrip(data), !.updated_at = t] ELSE d : d \in rows}

\* The handler without its status check.
SaveAcceptsAnyStatus(d) == TRUE

\* if (d.status !== "draft") return 409
SaveAccepts(d) == d.status = "draft"

SaveDraft(id, data, now) ==
  /\ IF ~HasDraft(id)
       THEN /\ resp' = Respond("save", id, "none", 404, "Draft not found")
            /\ UNCHANGED drafts
       ELSE IF ~SaveAccepts(DraftById(id))
         THEN /\ resp' = Respond("save", id, Seen(id), 409, "Draft is frozen")
              /\ UNCHANGED drafts
         ELSE /\ drafts' = UpdateDraftData(drafts, id, data, now)
              /\ resp' = Respond("save", id, Seen(id), 200, "")
  /\ UNCHANGED <<comments, shipments, items, cache, cacheHasLlmJson, useOpenAI, calc, page, up>>

(* ------------------------ POST /api/draft/:id/comment ----------------- *)
CommentBodies == {[field_name |-> "shipment_no", message |-> "check"],
                  [field_name |-> "", message |-> "check"]}

\* The handler with the status check the save handler has.
AddCommentDraftOnly(id, body) ==
  /\ IF ~HasDraft(id)
       THEN /\ resp' = Respond("comment", id, "none", 404, "Draft not found")
            /\ UNCHANGED comments
       ELSE IF DraftById(id).status # "draft"
         THEN /\ resp' = Respond("comment", id, Seen(id), 409, "Draft is frozen")
              /\ UNCHANGED comments
       ELSE IF body.field_name = "" \/ body.message = ""
         THEN /\ resp' = Respond("comment", id, Seen(id), 400, "field_name and message are required")
              /\ UNCHANGED comments
         ELSE /\ FreeIds # {}
              /\ Cardinality(comments) < MaxComments
              /\ comments' = comments \cup
                   {[id |-> NanoIds(FreeIds, 1)[1], draft_id |-> id, field_name |-> body.field_name,
                     message |-> body.message, author |-> ""]}
              /\ resp' = Respond("comment", id, Seen(id), 200, "")
  /\ UNCHANGED <<drafts, shipments, items, cache, cacheHasLlmJson, useOpenAI, calc, page, up>>

AddComment(id, body) ==
  /\ IF ~HasDraft(id)
       THEN /\ resp' = Respond("comment", id, "none", 404, "Draft not found")
            /\ UNCHANGED comments
       ELSE IF body.field_name = "" \/ body.message = ""
         THEN /\ resp' = Respond("comment", id, Seen(id), 400, "field_name and message are required")
              /\ UNCHANGED comments
         ELSE /\ FreeIds # {}
              /\ Cardinality(comments) < MaxComments
              /\ comments' = comments \cup
                   {[id |-> NanoIds(FreeIds, 1)[1], draft_id |-> id, field_name |-> body.field_name,
                     message |-> body.message, author |-> ""]}
              /\ resp' = Respond("comment", id, Seen(id), 200, "")
  /\ UNCHANGED <<drafts, shipments, items, cache, cacheHasLlmJson, useOpenAI, calc, page, up>>

(* ------------------------ POST /api/draft/:id/freeze ------------------ *)
\* The INSERT INTO shipments statement names 39 columns and has 38 "?".
ShipmentColumns      == 39
ShipmentPlaceholders == 38
\* db.prepare compiles the statement: SQLite rejects "38 values for 39 columns".
ShipmentInsertCompiles == ShipmentPlaceholders = ShipmentColumns

\* a bound parameter: undefined is bound as NULL
Bind(v)   == IF v = Absent THEN Null ELSE v
\* x ?? null
Nullish(v) == IF v \in {Absent, Null} THEN Null ELSE v
\* x || null
OrNull(v) == IF v \in {Absent, Null, "", NaN} THEN Null ELSE v

ShipmentRow(sid, id, s) ==
  [id |-> sid, shipment_no |-> Bind(s.shipment_no),
   total_net_kg |-> Nullish(s.total_net_kg), of_draft |-> id]
ItemRow(iid, sid, rowid, it) ==
  [id |-> iid, shipment_id |-> sid, rowid |-> rowid,
   product_name |-> OrNull(it.product_name), net_kg |-> Nullish(it.net_kg)]

\* how many entries of s.items the forEach inserts before one throws
\* (it.product_name of a null entry is a TypeError)
RECURSIVE ItemsInserted(_, _)
ItemsInserted(its, k) ==
  IF k > Len(its) THEN Len(its)
  ELSE IF its[k].json = "null" THEN k - 1
  ELSE ItemsInserted(its, k + 1)

\* UPDATE drafts SET status = 'frozen', updated_at = ? WHERE id = ?
MarkFrozen(rows, id, t) ==
  {IF d.id = id THEN [d EXCEPT !.status = "frozen", !.updated_at = t] ELSE d : d \in rows}

\* The body of db.transaction(...), run on the tables db = [drafts, shipments,
\* items]; ioFail is the statement an I/O error hits (0: none).  A throw rolls
\* every write back.
FreezeTxBody(db, id, s, ids, t, ioFail) ==
  LET n    == ItemsInserted(s.items, 1)
      base == Cardinality(db.items)
      db1  == [db EXCEPT !.shipments = @ \cup {ShipmentRow(ids[1], id, s)}]
      db2  == [db1 EXCEPT !.items = @ \cup
                 {ItemRow(ids[k + 1], ids[1], base + k, s.items[k]) : k \in 1..n}]
      db3  == [db2 EXCEPT !.drafts = MarkFrozen(db2.drafts, id, t)]
  IN  IF ~ShipmentInsertCompiles
        THEN [committed |-> FALSE, error |-> "values for columns", db |-> db]
      ELSE IF ioFail = 1
        THEN [committed |-> FALSE, error |-> "io", db |-> db]
      ELSE IF n < Len(s.items)
        THEN [committed |-> FALSE, error |-> "TypeError", db |-> db2]
      ELSE IF ioFail = 2
        THEN [committed |-> FALSE, error |-> "io", db |-> db1]
      ELSE IF ioFail = 3
        THEN [committed |-> FALSE, error |-> "io", db |-> db2]
      ELSE [committed |-> TRUE, error |-> "", db |-> db3]

\* The status UPDATE issued ahead of the transaction instead of inside it.
FreezeTxStatusOutside(db, id, s, ids, t, ioFail) ==
  LET pre == [db EXCEPT !.drafts = MarkFrozen(db.drafts, id, t)]
      run == FreezeTxBody(pre, id, s, ids, t, ioFail)
  IN  IF run.committed THEN run ELSE [run EXCEPT !.db = pre]

FreezeTx(db, id, s, ids, t, ioFail) ==
  LET run == FreezeTxBody(db, id, s, ids, t, ioFail)
  IN  IF run.committed THEN run ELSE [run EXCEPT !.db = db]

\* The handler without its status check.
FreezeAcceptsAnyStatus(d) == TRUE

\* if (d.status !== "draft") return 409
FreezeAccepts(d) == d.status = "draft"

FreezeDraft(id, now, ioFail) ==
  /\ IF ~HasDraft(id)
       THEN /\ resp' = Respond("freeze", id, "none", 404, "Draft not found")
            /\ UNCHANGED <<drafts, shipments, items>>
       ELSE IF ~FreezeAccepts(DraftById(id))
         THEN /\ resp' = Respond("freeze", id, Seen(id), 409, "Already frozen")
              /\ UNCHANGED <<drafts, shipments, items>>
         ELSE LET s   == DraftById(id).data_json
                  ids == NanoIds(FreeIds, 1 + Len(s.items))
                  tx  == FreezeTx([drafts |-> drafts, shipments |-> shipments, items |-> items],
                                  id, s, ids, now, ioFail)
              IN  /\ Len(ids) = 1 + Len(s.items)
                  /\ drafts' = tx.db.drafts
                  /\ shipments' = tx.db.shipments
                  /\ items' = tx.db.items
                  /\ resp' = IF tx.committed
                               THEN [Respond("freeze", id, Seen(id), 200, "") EXCEPT !.shipment_id = ids[1]]
                               ELSE Respond("freeze", id, Seen(id), 500, tx.error)
  /\ UNCHANGED <<comments, cache, cacheHasLlmJson, useOpenAI, calc, page, up>>

(* ----------------------------- validateAndScore ---------------------- *)
\* What the checks read from a field value.  has(k): truthy and not blank
\* after trim.
has(v) == v \notin {Absent, Null, "", " "}
\* the longest run of digits in a text, for /\d{6,}/ and /\d{6,8}/
DigitRun(v) ==
  CASE v \in {"1234567", "7654321"} -> 7
    [] v = "320611" -> 6
    [] v = "12345" -> 5
    [] OTHER -> 0
\* /\d{2}[./-]\d{2}[./-]\d{2,4}/
HasDate(v) == v \in {"01.02.2024", "03.02.2024"}
\* v.split("\n").length
LineCount(v) == IF v = "ACME\nOslo" THEN 2 ELSE 1
\* a number value; 0 and null are falsy
Truthy(v) == v \notin {Absent, Null, NaN, "0", ""}
NumVal(v) == CASE v = "100" -> 100 [] v = "250" -> 250 [] OTHER -> 0

ScoreChecks == {"shipment_no", "order_no", "loading_date", "scheduled_delivery_date",
                "consignee_address", "items", "totals", "hs_code"}

\* the condition of each if of validateAndScore
Passes(f, c) ==
  CASE c = "shipment_no" -> has(f.shipment_no) /\ DigitRun(f.shipment_no) >= 6
    [] c = "order_no" -> has(f.order_no) /\ DigitRun(f.order_no) >= 6
    [] c = "loading_date" -> has(f.loading_date) /\ HasDate(f.loading_date)
    [] c = "scheduled_delivery_date" ->
         has(f.scheduled_delivery_date) /\ HasDate(f.scheduled_delivery_date)
    [] c = "consignee_address" -> has(f.consignee_address) /\ LineCount(f.consignee_address) >= 2
    [] c = "items" -> Len(f.items) > 0
    [] c = "totals" -> /\ Truthy(f.total_net_kg) /\ Truthy(f.total_gross_kg)
                       /\ NumVal(f.total_gross_kg) >= NumVal(f.total_net_kg)
    [] c = "hs_code" -> has(f.hs_code) /\ DigitRun(f.hs_code) >= 6

\* The points with the sign of the last one turned.
PointsHsPenalty(c) ==
  CASE c = "shipment_no" -> 15 [] c = "order_no" -> 10 [] c = "loading_date" -> 8
    [] c = "scheduled_delivery_date" -> 6 [] c = "consignee_address" -> 15
    [] c = "items" -> 10 [] c = "totals" -> 10 [] c = "hs_code" -> 0 - 5

\* score += ... of each check
Points(c) ==
  CASE c = "shipment_no" -> 15 [] c = "order_no" -> 10 [] c = "loading_date" -> 8
    [] c = "scheduled_delivery_date" -> 6 [] c = "consignee_address" -> 15
    [] c = "items" -> 10 [] c = "totals" -> 10 [] c = "hs_code" -> 5

RECURSIVE SumPoints(_)
SumPoints(cs) ==
  IF cs = {} THEN 0
  ELSE LET c == CHOOSE x \in cs : TRUE IN Points(c) + SumPoints(cs \ {c})

Max(a, b) == IF a > b THEN a ELSE b
Min(a, b) == IF a < b THEN a ELSE b

\* The clamp without its lower end.
ClampUpperOnly(score) == Min(100, score)

\* score = Math.max(5, Math.min(100, score))
Clamp(score) == Max(5, Min(100, score))

\* the warnings, in the order the checks push them
Warnings(f) ==
  SelectSeq(<<[c |-> "shipment_no", w |-> "Shipment No missing/short"],
              [c |-> "loading_date", w |-> "Loading date missing"],
              [c |-> "consignee_address", w |-> "Consignee address incomplete"],
              [c |-> "totals", w |-> "Totals inconsistent/missing"]>>,
            LAMBDA e : ~Passes(f, e.c))

validateAndScore(f) ==
  [score |-> Clamp(SumPoints({c \in ScoreChecks : Passes(f, c)})),
   warnings |-> [i \in DOMAIN Warnings(f) |-> Warnings(f)[i].w]]

\* finalFields.confidence = Math.min(100, score + Math.min(10, Math.floor(evidence.length / 5)))
Confidence(score, evidence) == Min(100, score + Min(10, evidence \div 5))

(* ------------------------------ text recovery ------------------------- *)

\* scoreText(txt)
scoreText(t) ==
  IF t.len = 0 THEN 0
  ELSE t.keyHits * 10 + Min(20, t.numbers) + Min(10, t.dates) + Min(20, t.len \div 2000)

\* The tail of extractTextFromBuffer: [t1, t2, t3].filter(Boolean), then the
\* first of the stable sort by descending score; "" when nothing is left.
BestText(t1, t2, t3) ==
  LET cands == SelectSeq(<<t1, t2, t3>>, LAMBDA t : t.len > 0)
      best  == CHOOSE i \in 1..Len(cands) :
                 \A j \in 1..Len(cands) :
                   \/ scoreText(cands[j]) < scoreText(cands[i])
                   \/ scoreText(cands[j]) = scoreText(cands[i]) /\ i <= j
  IN  IF Len(cands) = 0 THEN NoText ELSE cands[best]

\* The three strategies in the order Promise.all lists them, and the orders
\* in which the three promises can settle.
StrategyOf == <<"pdfParse", "pdftotext", "ocr">>
Orders == {o \in [1..3 -> 1..3] : \A i, j \in 1..3 : i # j => o[i] # o[j]}

\* Results taken in the order the promises settled.
PromiseAllInCompletionOrder(texts, order) == [k \in 1..3 |-> texts[order[k]]]

\* Results of the first promise to settle only (Promise.race): the others are
\* not waited for.
PromiseRace(texts, order) == [k \in 1..3 |-> IF k = order[1] THEN texts[k] ELSE NoText]

\* await Promise.all([pPdfParse, pPdftotext, pOCR]): the k-th promise to
\* settle puts its text in its own slot; the array is read when all have.
RECURSIVE FillSlots(_, _, _, _)
FillSlots(slots, texts, order, k) ==
  IF k > 3 THEN slots
  ELSE FillSlots([slots EXCEPT ![order[k]] = texts[order[k]]], texts, order, k + 1)
PromiseAll(texts, order) == FillSlots([i \in 1..3 |-> NoText], texts, order, 1)

\* extractTextFromBuffer(pdfBuffer): ok[i] tells whether the tool of strategy i
\* worked; a strategy whose tool failed resolves to "".
extractTextFromBuffer(doc, ok, order) ==
  LET texts == [i \in 1..3 |-> IF ok[i] THEN Recovers(doc, StrategyOf[i]) ELSE NoText]
      all   == PromiseAll(texts, order)
  IN  BestText(all[1], all[2], all[3])

(* ------------------------- openaiExtract: the merge ------------------- *)
\* What the reconciliation service returned, a key it left out being Absent
\* (an empty item list stands for a missing one too: both keep the seed's).
\* EmptyOut is {}: what an unparsable response text is turned into.  evidence
\* is the length of the evidence array.
EmptyOut == [shipment_no |-> Absent, total_net_kg |-> Absent, items |-> <<>>, evidence |-> 0]
LlmOuts == {[shipment_no |-> " ", total_net_kg |-> Null, items |-> <<Item1, Item2>>, evidence |-> 7],
            [shipment_no |-> "7654321", total_net_kg |-> "250", items |-> <<>>, evidence |-> 0],
            EmptyOut}

IsBlank(v) == v \in {"", " "}
\* The merge as a plain spread { ...seedFields, ...llmFields }.
MergeScalarPreferReturned(seed, v) == IF v = Absent THEN seed ELSE v

MergeScalar(seed, v) ==
  IF v \in {Absent, Null} THEN seed
  ELSE IF v \in Numbers THEN v
  ELSE IF IsBlank(v) THEN seed ELSE v
MergeLlm(seed, out) ==
  [shipment_no  |-> MergeScalar(seed.shipment_no, out.shipment_no),
   total_net_kg |-> MergeScalar(seed.total_net_kg, out.total_net_kg),
   items        |-> IF Len(out.items) > 0 THEN out.items ELSE seed.items]

(* ----------------------------- POST /api/upload ----------------------- *)
\* evidence is the length of the evidence list answered.
NoRes  == [code |-> 0, error |-> "", draft_id |-> 0, version_no |-> 0, status |-> "",
           wrote |-> "none", evidence |-> 0]
\* tmp: what the request has created under os.tmpdir() and not removed.
IdleUpload == [pc |-> "idle", doc |-> NoFile, hash |-> "", textBest |-> NoText,
               overlap |-> FALSE, tmp |-> {}, res |-> NoRes]

\* extractTextFromBuffer's workspace: mkdtempSync and input.pdf (lines 319-321)
ExtractWorkspace == {"carrier-1/input.pdf"}
\* pdftoppm's page images and convert's prep- copies of them (lines 332-342);
\* of a PDF the OCR tool that can fail is the last one, tesseract, so both
\* are written; of a payload that is no PDF pdftoppm writes no page
OcrPages(doc) == IF doc = NotPdf THEN {} ELSE {"carrier-2-1.png", "prep-carrier-2-1.png"}
\* the handler's workspace for the alternates (lines 1483-1484)
AlternatesWorkspace == {"carrier-3/input.pdf"}

Fail(code, error) == [NoRes EXCEPT !.code = code, !.error = error]
\* the request has answered: its locals are gone
Done(u, res) == [u EXCEPT !.pc = "done", !.textBest = NoText, !.res = res]
InFlight(r) == up[r].pc \notin {"idle", "done"}

\* The request arrives: 400 without a file; else the hash is taken and
\* extractTextFromBuffer is awaited.
UploadStart(r, doc) ==
  /\ up[r].pc = "idle"
  /\ \A q \in Uploads : q < r => up[q].pc # "idle"
  /\ LET others == {q \in Uploads : q # r /\ InFlight(q) /\ up[q].doc = doc}
     IN  up' = [q \in Uploads |->
                 IF q = r THEN
                   IF doc = NoFile
                     THEN Done(up[r], Fail(400, "No file uploaded"))
                     ELSE [up[r] EXCEPT !.pc = "extract", !.doc = doc, !.hash = Sha256(doc),
                                        !.overlap = others # {}, !.tmp = ExtractWorkspace]
                 ELSE IF q \in others /\ doc # NoFile THEN [up[q] EXCEPT !.overlap = TRUE]
                 ELSE up[q]]
  /\ UNCHANGED <<drafts, comments, shipments, items, cache, cacheHasLlmJson, useOpenAI, calc, page, resp>>

\* The check written as (textBest && !textBest.trim()).
NoTextExtractedBlankOnly(best) == best.len > 0 /\ best.blank

\* if (!textBest || !textBest.trim())
NoTextExtracted(best) == best.len = 0 \/ best.blank

\* extractTextFromBuffer settles: each strategy gave its text or, its tool
\* having failed, "".  422 when the best text is empty or blank; else the two
\* alternates are started and awaited.
UploadExtracted(r, ok1, ok2, ok3) ==
  /\ up[r].pc = "extract"
  /\ \E order \in Orders :
       LET best == extractTextFromBuffer(up[r].doc, <<ok1, ok2, ok3>>, order)
       IN  up' = [up EXCEPT ![r] =
                   IF NoTextExtracted(best)
                     THEN Done([@ EXCEPT !.tmp = @ \cup OcrPages(up[r].doc)],
                               Fail(422, "Unable to extract text"))
                     ELSE [@ EXCEPT !.pc = "alternates", !.textBest = best,
                                    !.tmp = @ \cup OcrPages(up[r].doc) \cup AlternatesWorkspace]]
  /\ UNCHANGED <<drafts, comments, shipments, items, cache, cacheHasLlmJson, useOpenAI, calc, page, resp>>

\* INSERT INTO drafts: the primary key and ix_drafts_hash_ver must stay unique
InsertDraftOk(rows, row) ==
  \A d \in rows : d.id # row.id /\ ~(d.base_hash = row.base_hash /\ d.version_no = row.version_no)

\* The block without its SELECT: always the INSERT.
CreateOrReuseDraftNoLookup(rows, hash, fields, now, newId) ==
  LET row == [id |-> newId, base_hash |-> hash, version_no |-> 1, status |-> "draft",
              data_json |-> JsonRoundTrip(fields), updated_at |-> now]
  IN  IF InsertDraftOk(rows, row)
        THEN [ok |-> TRUE, rows |-> rows \cup {row}, draft_id |-> newId, wrote |-> "insert"]
        ELSE [ok |-> FALSE, rows |-> rows, draft_id |-> 0, wrote |-> "none"]

\* The block as INSERT OR REPLACE (as the cache write is): the row found gives
\* way to a new row under a new id.
CreateOrReuseDraftReplace(rows, hash, fields, now, newId) ==
  LET found == {d \in rows : d.base_hash = hash /\ d.version_no = 1}
      row   == [id |-> newId, base_hash |-> hash, version_no |-> 1, status |-> "draft",
                data_json |-> JsonRoundTrip(fields), updated_at |-> now]
  IN  [ok |-> TRUE, rows |-> (rows \ found) \cup {row}, draft_id |-> newId,
       wrote |-> IF found = {} THEN "insert" ELSE "update"]

\* Lines 1517-1529, create or reuse draft v1 of this hash: the SELECT, then
\* the INSERT of a new row under newId or the UPDATE of the row found.
\* ok is FALSE when the INSERT throws.
CreateOrReuseDraft(rows, hash, fields, now, newId) ==
  LET found == {d \in rows : d.base_hash = hash /\ d.version_no = 1}
      row   == [id |-> newId, base_hash |-> hash, version_no |-> 1, status |-> "draft",
                data_json |-> JsonRoundTrip(fields), updated_at |-> now]
  IN  IF found = {}
        THEN IF InsertDraftOk(rows, row)
               THEN [ok |-> TRUE, rows |-> rows \cup {row}, draft_id |-> newId, wrote |-> "insert"]
               ELSE [ok |-> FALSE, rows |-> rows, draft_id |-> 0, wrote |-> "none"]
        ELSE LET d == CHOOSE d \in found : TRUE
             IN  [ok |-> TRUE, rows |-> UpdateDraftData(rows, d.id, fields, now),
                  draft_id |-> d.id, wrote |-> "update"]

\* Lines 1511-1535, which no await interrupts: create or reuse draft v1, write
\* the cache, answer.  ioFail is the statement an I/O error hits (0: none,
\* 1: the draft write, 2: the cache write).
\* refined is [fields, evidence]: finalFields and evidence.length.
UploadFinish(r, refined, now, ioFail) ==
  LET hash    == up[r].hash
      finalFields == refined.fields
      newId   == IF FreeIds = {} THEN 0 ELSE NanoIds(FreeIds, 1)[1]
      cr      == CreateOrReuseDraft(drafts, hash, finalFields, now, newId)
      cacheOk == cacheHasLlmJson /\ ioFail # 2
      crow    == [hash |-> hash, text |-> up[r].textBest, parsed |-> parseFieldsFromText(up[r].textBest)]
  IN  /\ DraftsV1(hash) = {} => FreeIds # {}
      /\ IF ioFail = 1 \/ ~cr.ok
           THEN /\ up' = [up EXCEPT ![r] =
                            Done(@, Fail(500, IF cr.ok THEN "io" ELSE "UNIQUE constraint failed"))]
                /\ UNCHANGED <<drafts, cache>>
           ELSE /\ drafts' = cr.rows
                /\ IF ~cacheOk
                     THEN /\ up' = [up EXCEPT ![r] =
                                      Done(@, [Fail(500, IF cacheHasLlmJson THEN "io" ELSE "no column named llm_json")
                                                 EXCEPT !.wrote = cr.wrote])]
                          /\ UNCHANGED cache
                     ELSE /\ cache' = {c \in cache : c.hash # hash} \cup {crow}
                          /\ up' = [up EXCEPT ![r] =
                                      Done(@, [code |-> 200, error |-> "", draft_id |-> cr.draft_id,
                                               version_no |-> 1, status |-> "draft", wrote |-> cr.wrote,
                                               evidence |-> refined.evidence])]
      /\ UNCHANGED <<comments, shipments, items, cacheHasLlmJson, useOpenAI, calc, page, resp>>

\* The alternates settle; parseFieldsFromText; with the reconciliation client
\* openaiExtract is awaited, without it the request finishes here.
UploadAlternates(r, now, ioFail) ==
  /\ up[r].pc = "alternates"
  /\ IF useOpenAI
       THEN /\ up' = [up EXCEPT ![r].pc = "llm"]
            /\ UNCHANGED <<drafts, comments, shipments, items, cache, cacheHasLlmJson, useOpenAI, calc, page, resp>>
       ELSE UploadFinish(r, [fields |-> parseFieldsFromText(up[r].textBest), evidence |-> 0],
                        now, ioFail)

\* The step without the try/catch around openaiExtract: its exception reaches
\* the handler's catch.
UploadLlmNoCatch(r, threw, out, now, ioFail) ==
  /\ up[r].pc = "llm"
  /\ LET seed == parseFieldsFromText(up[r].textBest)
     IN  IF threw
           THEN /\ up' = [up EXCEPT ![r] = Done(@, Fail(500, "LLM extraction failed"))]
                /\ UNCHANGED <<drafts, comments, shipments, items, cache, cacheHasLlmJson,
                               useOpenAI, calc, page, resp>>
           ELSE UploadFinish(r, [fields |-> MergeLlm(seed, out), evidence |-> out.evidence],
                             now, ioFail)

\* openaiExtract settles: it threw (caught: the seed and an empty evidence
\* list are kept) or returned the merge of out into the seed.
UploadLlm(r, threw, out, now, ioFail) ==
  /\ up[r].pc = "llm"
  /\ LET seed == parseFieldsFromText(up[r].textBest)
     IN  UploadFinish(r, IF threw
                           THEN [fields |-> seed, evidence |-> 0]
                           ELSE [fields |-> MergeLlm(seed, out), evidence |-> out.evidence],
                      now, ioFail)

(* --------------------------- the specification ------------------------ *)
\* A fresh database: the CREATE TABLE statements of lines 46-143 ran on an
\* empty file.
Init ==
  /\ drafts = {} /\ comments = {} /\ shipments = {} /\ items = {} /\ cache = {}
  /\ cacheHasLlmJson = TRUE
  /\ useOpenAI \in BOOLEAN
  /\ up = [r \in Uploads |-> IdleUpload]
  /\ resp = NoResp
  /\ calc = NoCalc
  /\ page = IdlePage

Next ==
  \/ \E r \in Uploads, doc \in Docs \cup {NoFile} : UploadStart(r, doc)
  \/ \E r \in Uploads, ok1, ok2, ok3 \in BOOLEAN : UploadExtracted(r, ok1, ok2, ok3)
  \/ \E r \in Uploads, now \in Clock, ioFail \in 0..2 : UploadAlternates(r, now, ioFail)
  \/ \E r \in Uploads, threw \in BOOLEAN, out \in LlmOuts, now \in Clock, ioFail \in 0..2 :
       UploadLlm(r, threw, out, now, ioFail)
  \/ \E id \in Targets, data \in SaveBodies, now \in Clock : SaveDraft(id, data, now)
  \/ \E id \in Targets, body \in CommentBodies : AddComment(id, body)
  \/ \E id \in Targets, now \in Clock, ioFail \in 0..3 : FreezeDraft(id, now, ioFail)

Spec == Init /\ [][Next]_vars

\* A database file an earlier run left behind.  Lines 39-43 open the file at
\* SQLITE_DB_PATH, every CREATE is IF NOT EXISTS and ensureColumns (lines
\* 145-169) migrates the tables of older files, so the process starts on
\* whatever rows the file holds: here draft v1 of payload "A", frozen, with the
\* Shipment and Item copied from it.  A file first created by the release whose
\* cache table has no llm_json column (ensureColumns is not run on cache)
\* keeps that table.
PersistedDraft    == [id |-> 1, base_hash |-> Sha256("A"), version_no |-> 1, status |-> "frozen",
                      data_json |-> JsonRoundTrip(DataA), updated_at |-> 0]
PersistedShipment == ShipmentRow(2, 1, DataA)
PersistedItem     == ItemRow(3, 2, 1, Item1)

InitPersisted ==
  /\ drafts = {PersistedDraft}
  /\ shipments = {PersistedShipment}
  /\ items = {PersistedItem}
  /\ comments = {} /\ cache = {}
  /\ cacheHasLlmJson \in BOOLEAN
  /\ useOpenAI \in BOOLEAN
  /\ up = [r \in Uploads |-> IdleUpload]
  /\ resp = NoResp
  /\ calc = NoCalc
  /\ page = IdlePage

SpecPersisted == InitPersisted /\ [][Next]_vars

(* ------------------------ the page's Freeze & Submit ------------------ *)
\* What collectForm() returns: the form as edited, or emptied.
FormBodies == {DataE1, DataB}

\* The click handler of freezeBtn.  currentDraftId is the draft_id of an
\* upload the page was answered; collectForm() reads the form.  The handler
\* runs to its first await: the save request is sent.
FreezeClick(r, body) ==
  /\ page.pc = "idle"
  /\ up[r].pc = "done" /\ up[r].res.code = 200
  /\ page' = [IdlePage EXCEPT !.pc = "save", !.id = up[r].res.draft_id, !.body = body]
  /\ UNCHANGED <<drafts, comments, shipments, items, cache, cacheHasLlmJson, useOpenAI, up,
                 resp, calc>>

\* The server handles the page's save request.
PageSaveHandled(now) ==
  /\ page.pc = "save" /\ resp.op # "save"
  /\ SaveDraft(page.id, page.body, now)

\* await fetch(... "/save" ...) settles: fetch rejects on a network error
\* only, and the handler does not look at the response before sending the
\* freeze request.
PageSaveAnswered ==
  /\ page.pc = "save" /\ resp.op = "save"
  /\ page' = [page EXCEPT !.pc = "freeze", !.saved = resp.code]
  /\ UNCHANGED <<drafts, comments, shipments, items, cache, cacheHasLlmJson, useOpenAI, up,
                 resp, calc>>

\* The server handles the page's freeze request.
PageFreezeHandled(now, ioFail) ==
  /\ page.pc = "freeze" /\ resp.op = "save"
  /\ FreezeDraft(page.id, now, ioFail)

\* await fetch(... "/freeze") settles: !r.ok throws, and the status line shows
\* the error or the shipment id.
PageFreezeAnswered ==
  /\ page.pc = "freeze" /\ resp.op = "freeze"
  /\ page' = [page EXCEPT !.pc = "done", !.frozen = resp.code]
  /\ UNCHANGED <<drafts, comments, shipments, items, cache, cacheHasLlmJson, useOpenAI, up,
                 resp, calc>>

\* The page as the client of the server: its uploads and one Freeze & Submit,
\* on a database an earlier run left behind.
NextPage ==
  \/ \E r \in Uploads, doc \in Docs \cup {NoFile} : UploadStart(r, doc)
  \/ \E r \in Uploads, ok1, ok2, ok3 \in BOOLEAN : UploadExtracted(r, ok1, ok2, ok3)
  \/ \E r \in Uploads, now \in Clock, ioFail \in 0..2 : UploadAlternates(r, now, ioFail)
  \/ \E r \in Uploads, threw \in BOOLEAN, out \in LlmOuts, now \in Clock, ioFail \in 0..2 :
       UploadLlm(r, threw, out, now, ioFail)
  \/ \E r \in Uploads, body \in FormBodies : FreezeClick(r, body)
  \/ \E now \in Clock : PageSaveHandled(now)
  \/ PageSaveAnswered
  \/ \E now \in Clock, ioFail \in 0..3 : PageFreezeHandled(now, ioFail)
  \/ PageFreezeAnswered

SpecPage == InitPersisted /\ [][NextPage]_vars

(* ---------------------- the functions of the pipeline ---------------- *)
\* The functions the upload handler calls, applied to inputs of their own:
\* calc records the one call of a behaviour and what it returned; the store
\* is not touched.
Recover(doc, ok, order) ==
  /\ calc = NoCalc
  /\ calc' = [fn |-> "extractTextFromBuffer",
              arg |-> [doc |-> doc, ok |-> ok, order |-> order],
              out |-> extractTextFromBuffer(doc, ok, order)]
  /\ UNCHANGED <<drafts, comments, shipments, items, cache, cacheHasLlmJson, useOpenAI, up, resp, page>>

\* Seed records and returned records the merge is applied to.
MergeSeeds == [shipment_no : {"", "1234567"}, total_net_kg : {Null, "100"},
               items : {<<>>, <<Item1>>}]
MergeOuts  == [shipment_no : {Absent, Null, "", " ", "7654321"},
               total_net_kg : {Absent, Null, "0", "250"},
               items : {<<>>, <<Item1, Item2>>}]

Merge(seed, out) ==
  /\ calc = NoCalc
  /\ calc' = [fn |-> "openaiExtract", arg |-> [seed |-> seed, out |-> out],
              out |-> MergeLlm(seed, out)]
  /\ UNCHANGED <<drafts, comments, shipments, items, cache, cacheHasLlmJson, useOpenAI, up, resp, page>>

\* Records and evidence counts the scoring is applied to.
ScoreInputs == [shipment_no : {"", "12345", "1234567"}, order_no : {"", "7654321"},
                loading_date : {"", "01.02.2024"}, scheduled_delivery_date : {"", "03.02.2024"},
                consignee_address : {"", "ACME", "ACME\nOslo"}, items : {<<>>, <<Item1>>},
                total_net_kg : {Null, "100", "250"}, total_gross_kg : {Null, "100"},
                hs_code : {"", "320611"}]
EvidenceCounts == {0, 7, 60}

\* Lines 1512-1513: the record is scored and the evidence bonus added.
Score(f, evidence) ==
  /\ calc = NoCalc
  /\ calc' = [fn |-> "validateAndScore", arg |-> [f |-> f, evidence |-> evidence],
              out |-> [score |-> validateAndScore(f).score,
                       warnings |-> validateAndScore(f).warnings,
                       confidence |-> Confidence(validateAndScore(f).score, evidence)]]
  /\ UNCHANGED <<drafts, comments, shipments, items, cache, cacheHasLlmJson, useOpenAI, up, resp, page>>

\* The quantities of the examined texts, as written in the documents.
Q24500c75 == <<"2", "4", ".", "5", "0", "0", ",", "7", "5">>
Q10000 == <<"1", "0", ".", "0", "0", "0", ",", "0", "0">>
Q10340 == <<"1", "0", ".", "3", "4", "0", ",", "0", "0">>
Q1234567c5 == <<"1", ".", "2", "3", "4", ".", "5", "6", "7", ",", "5">>
Q400 == <<"4", "0", "0">>
Q0 == <<"0">>
QComma == <<",">>
TotalLines == {TotalLine(Q10000, Q400, Q10340), TotalLine(Q24500c75, Q400, Q1234567c5),
               TotalLine(Q0, Q0, Q0), TotalLine(QComma, Q400, Q24500c75), OtherLine}
MaxLines == 2
TotalsTexts == UNION {[1..n -> TotalLines] : n \in 0..MaxLines}

\* Lines 508-511: the totals of a text.
Totals(lines) ==
  /\ calc = NoCalc
  /\ calc' = [fn |-> "parseTotals", arg |-> lines, out |-> ParseTotals(lines)]
  /\ UNCHANGED <<drafts, comments, shipments, items, cache, cacheHasLlmJson, useOpenAI, up, resp, page>>

\* The address lines examined.
LineStreet  == AddressLine("Main St 5", FALSE, 9, "", "")
LinePostal  == AddressLine("10115 Berlin", FALSE, 12, "10115", "Berlin")
LineCountry == AddressLine("Germany", TRUE, 7, "", "")
LineCode    == AddressLine("DE", TRUE, 2, "", "")
LineCity    == AddressLine("Berlin", TRUE, 6, "", "")
AddressLines == {LineStreet, LinePostal, LineCountry, LineCode, LineCity}
MaxAddressLines == 3
AddressBlocks == UNION {[1..n -> AddressLines] : n \in 0..MaxAddressLines}

\* Lines 240-258: an address block is split.
ShippingPoint(lines) ==
  /\ calc = NoCalc
  /\ calc' = [fn |-> "parseShippingPoint", arg |-> lines, out |-> parseShippingPoint(lines)]
  /\ UNCHANGED <<drafts, comments, shipments, items, cache, cacheHasLlmJson, useOpenAI, up, resp, page>>

InitFunctions ==
  /\ drafts = {} /\ comments = {} /\ shipments = {} /\ items = {} /\ cache = {}
  /\ cacheHasLlmJson = TRUE
  /\ useOpenAI = FALSE
  /\ up = [r \in Uploads |-> IdleUpload]
  /\ resp = NoResp
  /\ calc = NoCalc
  /\ page = IdlePage

NextFunctions ==
  \/ \E doc \in Docs, ok \in [1..3 -> BOOLEAN], order \in Orders : Recover(doc, ok, order)
  \/ \E seed \in MergeSeeds, out \in MergeOuts : Merge(seed, out)
  \/ \E f \in ScoreInputs, evidence \in EvidenceCounts : Score(f, evidence)
  \/ \E lines \in TotalsTexts : Totals(lines)
  \/ \E lines \in AddressBlocks : ShippingPoint(lines)

SpecFunctions == InitFunctions /\ [][NextFunctions]_vars

(* ------------------------------- claims ------------------------------- *)
ShipmentsOf(id) == {s \in shipments : s.of_draft = id}
IsDone(r)       == up[r].pc = "done"

C2_FreezeOfDraftSucceeds ==
  (resp.op = "freeze" /\ resp.seen = "draft" /\ resp.error \notin {"io", "TypeError"}) =>
    /\ resp.code = 200
    /\ DraftById(resp.id).status = "frozen"
    /\ \E s \in shipments :
         /\ s.id = resp.shipment_id
         /\ s.of_draft = resp.id
         /\ Cardinality({i \in items : i.shipment_id = s.id}) = Len(DraftById(resp.id).data_json.items)

\* C3: a save request on a frozen draft is answered 409 "Draft is frozen" and
\* leaves the drafts table (data, status, updated_at of every row) as it was.
C3_SaveOnFrozenRejected ==
  [][(resp'.op = "save" /\ up' = up) =>
     \A id \in Targets \cap {resp'.id}, data \in SaveBodies, now \in Clock :
       (/\ HasDraft(id) /\ DraftById(id).status = "frozen"
        /\ SaveDraft(id, data, now)) =>
         /\ resp'.code = 409
         /\ resp'.error = "Draft is frozen"
         /\ drafts' = drafts]_vars

\* C3, the case: the last request was a save on a frozen draft, refused.
C3_Witness ==
  /\ resp.op = "save" /\ resp.seen = "frozen" /\ resp.code = 409
  /\ HasDraft(resp.id) /\ DraftById(resp.id).status = "frozen"

\* C4: a row enters the drafts table with status draft, no row leaves it, and
\* a row that is frozen stays frozen in every step.
C4_StatusOnlyForward ==
  [][/\ \A d \in drafts : \E e \in drafts' :
          /\ e.id = d.id
          /\ d.status = "frozen" => e.status = "frozen"
     /\ \A e \in drafts' :
          /\ e.status \in {"draft", "frozen"}
          /\ (\A d \in drafts : d.id # e.id) => e.status = "draft"]_vars

\* C4, the case: an upload reused a draft that is frozen (it wrote the row),
\* a save and a freeze having been tried on it too.
C4_Witness ==
  \E r \in Uploads :
    /\ IsDone(r) /\ up[r].res.code = 200 /\ up[r].res.wrote = "update"
    /\ HasDraft(up[r].res.draft_id)
    /\ DraftById(up[r].res.draft_id).status = "frozen"
    /\ resp.op \in {"save", "freeze"} /\ resp.id = up[r].res.draft_id

\* C5: freeze is all-or-nothing.  In every state a draft has a Shipment copied
\* from it exactly if it is frozen, every Item belongs to a Shipment that
\* exists, and a freeze request answered with an error left the draft as it
\* found it.
C5_FreezeAllOrNothing ==
  /\ \A d \in drafts : (ShipmentsOf(d.id) # {}) <=> (d.status = "frozen")
  /\ \A s \in shipments : HasDraft(s.of_draft)
  /\ \A i \in items : \E s \in shipments : s.id = i.shipment_id
  /\ (resp.op = "freeze" /\ resp.code = 500) =>
       /\ resp.seen = "draft"
       /\ DraftById(resp.id).status = "draft"
       /\ ShipmentsOf(resp.id) = {}

\* C5, the case: a freeze request failed inside the transaction.
C5_Witness ==
  /\ resp.op = "freeze" /\ resp.code = 500
  /\ HasDraft(resp.id) /\ DraftById(resp.id).status = "draft"
  /\ ShipmentsOf(resp.id) = {} /\ items = {}

\* C6 as claimed: save and freeze on one draft exclude each other.  A freeze
\* request that found the draft in status draft (and that no I/O error and no
\* null item entry stopped) leaves a Shipment holding the data the last save
\* before it wrote, and a save request handled right after it is answered 409
\* and changes nothing.
C6_SaveFreezeExclusive ==
  [][/\ \A id \in Targets, now \in Clock, ioFail \in 0..3 :
          (/\ FreezeDraft(id, now, ioFail)
           /\ HasDraft(id) /\ DraftById(id).status = "draft"
           /\ resp'.error \notin {"io", "TypeError"}) =>
            \E s \in shipments' :
              /\ s.of_draft = id
              /\ s.shipment_no = Bind(DraftById(id).data_json.shipment_no)
              /\ s.total_net_kg = Nullish(DraftById(id).data_json.total_net_kg)
     /\ \A id \in Targets, data \in SaveBodies, now \in Clock :
          (/\ SaveDraft(id, data, now)
           /\ resp.op = "freeze" /\ resp.id = id /\ resp.seen = "draft"
           /\ resp.error \notin {"io", "TypeError"}) =>
            /\ resp'.code = 409
            /\ drafts' = drafts]_vars

\* C7: draft creation is idempotent by content.  No two rows of drafts share
\* (base_hash, version_no); an upload answered 200 names the version-1 draft
\* of its payload's hash; two uploads of the same payload answered 200 name
\* the same draft; of the uploads of one payload at most one inserted a row;
\* and no upload failed on the uniqueness constraint.
C7_OneDraftPerDocument ==
  /\ \A d1, d2 \in drafts :
       (d1.base_hash = d2.base_hash /\ d1.version_no = d2.version_no) => d1 = d2
  /\ \A r \in Uploads :
       /\ up[r].pc \notin {"idle"} /\ up[r].doc # NoFile => up[r].hash = Sha256(up[r].doc)
       /\ (IsDone(r) /\ up[r].res.code = 200) =>
            /\ up[r].res.version_no = 1
            /\ up[r].res.wrote \in {"insert", "update"}
            /\ \E d \in drafts :
                 /\ d.id = up[r].res.draft_id
                 /\ d.base_hash = Sha256(up[r].doc)
                 /\ d.version_no = 1
       /\ IsDone(r) => up[r].res.error # "UNIQUE constraint failed"
  /\ \A r1, r2 \in Uploads :
       (r1 # r2 /\ IsDone(r1) /\ IsDone(r2) /\ up[r1].doc = up[r2].doc) =>
         /\ (up[r1].res.code = 200 /\ up[r2].res.code = 200) =>
              up[r1].res.draft_id = up[r2].res.draft_id
         /\ ~(up[r1].res.wrote = "insert" /\ up[r2].res.wrote = "insert")

\* C7, the case: the same payload was uploaded twice, the first upload
\* inserted the draft and the second updated it.
C7_Witness ==
  \E r1, r2 \in Uploads :
    /\ r1 # r2 /\ IsDone(r1) /\ IsDone(r2) /\ up[r1].doc = up[r2].doc
    /\ ~up[r1].overlap /\ ~up[r2].overlap
    /\ up[r1].res.code = 200 /\ up[r2].res.code = 200
    /\ up[r1].res.wrote = "insert" /\ up[r2].res.wrote = "update"
    /\ up[r1].res.draft_id = up[r2].res.draft_id

\* an upload that got past text recovery and met no I/O error
RanToTheEnd(r) ==
  /\ IsDone(r)
  /\ up[r].res.code \notin {400, 422}
  /\ up[r].res.error \notin {"io", "no column named llm_json"}

\* C8: two uploads of the same payload that were in flight together, both
\* past text recovery and neither hit by an I/O error, are both answered 200
\* with the same draft id; one upload of that payload inserted the draft, every
\* other one updated it.
C8_ConcurrentUploadsShareDraft ==
  \A r1, r2 \in Uploads :
    (/\ r1 # r2 /\ up[r1].doc = up[r2].doc
     /\ up[r1].overlap /\ up[r2].overlap
     /\ RanToTheEnd(r1) /\ RanToTheEnd(r2)) =>
      /\ up[r1].res.code = 200 /\ up[r2].res.code = 200
      /\ up[r1].res.draft_id = up[r2].res.draft_id
      /\ Cardinality({d \in drafts : d.base_hash = up[r1].hash}) = 1
      /\ Cardinality({r \in Uploads : up[r].doc = up[r1].doc /\ up[r].res.wrote = "insert"}) = 1

\* C8, the case: both uploads of one payload were in flight together and both
\* have answered, one having inserted and one having updated.
C8_Witness ==
  \E r1, r2 \in Uploads :
    /\ r1 # r2 /\ up[r1].doc = up[r2].doc
    /\ up[r1].overlap /\ up[r2].overlap
    /\ RanToTheEnd(r1) /\ RanToTheEnd(r2)
    /\ up[r1].res.wrote = "update" /\ up[r2].res.wrote = "insert"

\* C9: when all three strategies fail or return empty text, the upload is
\* answered 422 "Unable to extract text" in that step, and the drafts and the
\* cache tables are left as they were.
C9_NoTextNoDraft ==
  [][\A r \in Uploads, ok1, ok2, ok3 \in BOOLEAN :
       (/\ up[r].pc = "extract" /\ up'[r].pc # "extract"
        /\ (~ok1 \/ Recovers(up[r].doc, "pdfParse").len = 0)
        /\ (~ok2 \/ Recovers(up[r].doc, "pdftotext").len = 0)
        /\ (~ok3 \/ Recovers(up[r].doc, "ocr").len = 0)
        /\ UploadExtracted(r, ok1, ok2, ok3)) =>
         /\ up'[r].pc = "done"
         /\ up'[r].res.code = 422
         /\ up'[r].res.error = "Unable to extract text"
         /\ up'[r].res.wrote = "none"
         /\ drafts' = drafts /\ cache' = cache]_vars

\* C9, the case: an upload of the payload with a text layer was answered 422,
\* every tool having failed, and no draft or cache row exists.
C9_Witness ==
  \E r \in Uploads :
    /\ IsDone(r) /\ up[r].doc = "A" /\ up[r].res.code = 422
    /\ drafts = {} /\ cache = {}

\* C10 as claimed: an upload answered with an error (400, 422, 500) leaves
\* the drafts table as it was before the request.
C10_FailedUploadLeavesDrafts ==
  [][\A r \in Uploads :
       (~IsDone(r) /\ up'[r].pc = "done" /\ up'[r].res.code # 200) => drafts' = drafts]_vars

\* the Item rows of a Shipment in the order GET /api/shipment/:id returns
\* them (ORDER BY rowid)
ItemsOfShipment(tbl, sid) == {i \in tbl : i.shipment_id = sid}

\* C11 as claimed: Shipment and Item rows are created only by freeze_draft,
\* and a freeze request on a draft in status draft (that no I/O error and no
\* null item entry stops) creates one Shipment whose scalar fields equal the
\* draft's data at that moment, with one Item per entry of data.items, each
\* equal to its entry.  No other step changes the two tables.
C11_ShipmentCopiesDraft ==
  [][/\ (\A id \in Targets, now \in Clock, ioFail \in 0..3 : ~FreezeDraft(id, now, ioFail)) =>
          (shipments' = shipments /\ items' = items)
     /\ \A id \in Targets, now \in Clock, ioFail \in 0..3 :
          (/\ FreezeDraft(id, now, ioFail)
           /\ HasDraft(id) /\ DraftById(id).status = "draft"
           /\ resp'.error \notin {"io", "TypeError"}) =>
            LET s == DraftById(id).data_json
            IN  \E sh \in shipments' \ shipments :
                  /\ shipments' = shipments \cup {sh}
                  /\ sh.of_draft = id
                  /\ sh.shipment_no = s.shipment_no
                  /\ sh.total_net_kg = s.total_net_kg
                  /\ Cardinality(ItemsOfShipment(items', sh.id)) = Len(s.items)
                  /\ \A k \in DOMAIN s.items :
                       \E i \in ItemsOfShipment(items', sh.id) :
                         /\ i.product_name = s.items[k].product_name
                         /\ i.net_kg = s.items[k].net_kg
                         /\ Cardinality({j \in ItemsOfShipment(items', sh.id) : j.rowid < i.rowid}) = k - 1]_vars

\* C12: a save on a draft in status draft is answered 200 and replaces the
\* stored data wholesale: the draft read back right after it has exactly the
\* saved data as its fields, and the same id, fingerprint, version_no, status
\* and comments as before.
C12_SaveReplacesWholesale ==
  [][(resp'.op = "save" /\ up' = up) =>
     \A id \in Targets \cap {resp'.id}, data \in SaveBodies, now \in Clock :
       (/\ HasDraft(id) /\ DraftById(id).status = "draft"
        /\ SaveDraft(id, data, now)) =>
         /\ resp'.code = 200
         /\ Cardinality({d \in drafts' : d.id = id}) = 1
         /\ GetDraft(id)'.fields = data
         /\ GetDraft(id)'.id = id
         /\ GetDraft(id)'.version_no = GetDraft(id).version_no
         /\ GetDraft(id)'.status = GetDraft(id).status
         /\ GetDraft(id)'.comments = GetDraft(id).comments
         /\ DraftById(id)'.base_hash = DraftById(id).base_hash]_vars

\* C12, the case: the last request was a save answered 200 whose data lacks
\* the shipment number the uploaded record had, and the draft holds exactly it.
C12_Witness ==
  /\ resp.op = "save" /\ resp.code = 200
  /\ HasDraft(resp.id)
  /\ GetDraft(resp.id).fields = DataE2
  /\ GetDraft(resp.id).status = "draft"

\* C13: a comment request with a field name and a message on an existing
\* draft is answered 200 whether the draft is in status draft or frozen; it
\* adds exactly one comment row, keyed to that draft and field, and leaves the
\* drafts, shipments and items tables as they were.
C13_CommentInEitherState ==
  [][(resp'.op = "comment" /\ up' = up) =>
     \A id \in Targets \cap {resp'.id}, body \in CommentBodies :
       (/\ HasDraft(id)
        /\ body.field_name # "" /\ body.message # ""
        /\ AddComment(id, body)) =>
         /\ resp'.code = 200
         /\ \E c \in comments' \ comments :
              /\ comments' = comments \cup {c}
              /\ c.draft_id = id
              /\ c.field_name = body.field_name
              /\ c.message = body.message
         /\ Cardinality(comments') = Cardinality(comments) + 1
         /\ drafts' = drafts /\ shipments' = shipments /\ items' = items]_vars

\* C13, the case: the last request was a comment on a frozen draft, answered
\* 200, and the comment row is there.
C13_Witness ==
  /\ resp.op = "comment" /\ resp.code = 200 /\ resp.seen = "frozen"
  /\ \E c \in comments : c.draft_id = resp.id
  /\ DraftById(resp.id).status = "frozen"

\* the tables a request can write
Store == <<drafts, comments, shipments, items, cache>>

\* C14: save and freeze answer 404 'Draft not found' for an id no draft has
\* and 409 ('Draft is frozen', 'Already frozen') for a draft that is frozen,
\* never one for the other, and in both cases no table is written.
C14_NotFoundVersusWrongState ==
  [][/\ (resp'.op = "save" /\ up' = up) =>
        \A id \in Targets \cap {resp'.id}, data \in SaveBodies, now \in Clock :
          SaveDraft(id, data, now) =>
            /\ ~HasDraft(id) =>
                 (resp'.code = 404 /\ resp'.error = "Draft not found" /\ Store' = Store)
            /\ (HasDraft(id) /\ DraftById(id).status = "frozen") =>
                 (resp'.code = 409 /\ resp'.error = "Draft is frozen" /\ Store' = Store)
            /\ resp'.code = 404 => ~HasDraft(id)
            /\ resp'.code = 409 => (HasDraft(id) /\ DraftById(id).status = "frozen")
     /\ (resp'.op = "freeze" /\ up' = up) =>
        \A id \in Targets \cap {resp'.id}, now \in Clock, ioFail \in 0..3 :
          FreezeDraft(id, now, ioFail) =>
            /\ ~HasDraft(id) =>
                 (resp'.code = 404 /\ resp'.error = "Draft not found" /\ Store' = Store)
            /\ (HasDraft(id) /\ DraftById(id).status = "frozen") =>
                 (resp'.code = 409 /\ resp'.error = "Already frozen" /\ Store' = Store)
            /\ resp'.code = 404 => ~HasDraft(id)
            /\ resp'.code = 409 => (HasDraft(id) /\ DraftById(id).status = "frozen")]_vars

\* C14, the case: while a frozen draft is in the store, a save or freeze
\* request naming an id no draft has was answered 404.
C14_Witness ==
  /\ resp.op \in {"save", "freeze"} /\ resp.code = 404 /\ resp.seen = "none"
  /\ ~HasDraft(resp.id)
  /\ \E d \in drafts : d.status = "frozen"

\* the text strategy i gave in the recorded call of extractTextFromBuffer
Gave(i) == IF calc.arg.ok[i] THEN Recovers(calc.arg.doc, StrategyOf[i]) ELSE NoText

\* C15: Text Recovery chooses among what all three strategies gave, whatever
\* the order they settled in: a strategy that failed or gave empty text counts
\* as an empty candidate and stops no other; the result is one of the texts
\* given, it is non-empty whenever some strategy gave non-empty text, and
\* empty only when none did.
C15_StrategiesIsolated ==
  calc.fn = "extractTextFromBuffer" =>
    /\ (\E i \in 1..3 : Gave(i).len > 0) => calc.out.len > 0
    /\ (\A i \in 1..3 : Gave(i).len = 0) => calc.out = NoText
    /\ calc.out.len > 0 => \E i \in 1..3 : calc.out = Gave(i)

\* C15, the case: the embedded-text tool failed and settled first, the layout
\* tool gave empty text, OCR settled last and gave the text that is returned.
C15_Witness ==
  /\ calc.fn = "extractTextFromBuffer"
  /\ calc.arg.doc = "B"
  /\ ~calc.arg.ok[1] /\ calc.arg.ok[2] /\ calc.arg.ok[3]
  /\ calc.arg.order = <<1, 2, 3>>
  /\ calc.out = TextB3

\* C16: the winning text has the highest score among the non-empty
\* candidates; among candidates that tie for it the winner is the first in
\* the order embedded text, layout text, OCR text; and the winner is the same
\* for every order in which the strategies settle.
C16_WinnerHighestFirst ==
  calc.fn = "extractTextFromBuffer" =>
    /\ (\E i \in 1..3 : Gave(i).len > 0) =>
         \E w \in 1..3 :
           /\ Gave(w).len > 0
           /\ calc.out = Gave(w)
           /\ \A j \in 1..3 : Gave(j).len > 0 => scoreText(Gave(j)) <= scoreText(Gave(w))
           /\ \A j \in 1..3 : (j < w /\ Gave(j).len > 0) => scoreText(Gave(j)) < scoreText(Gave(w))
    /\ \A o \in Orders : extractTextFromBuffer(calc.arg.doc, calc.arg.ok, o) = calc.out

\* C16, the case: all three strategies gave text, OCR settling first and the
\* embedded text last; embedded and layout text tie for the highest score and
\* the embedded text wins.
C16_Witness ==
  /\ calc.fn = "extractTextFromBuffer"
  /\ calc.arg.doc = "A"
  /\ \A i \in 1..3 : calc.arg.ok[i]
  /\ calc.arg.order = <<3, 2, 1>>
  /\ scoreText(TextA1) = scoreText(TextA2) /\ TextA1 # TextA2
  /\ scoreText(TextA3) < scoreText(TextA1)
  /\ calc.out = TextA1

\* a returned value that overwrites the seed: not missing, not null and, if a
\* string, not blank after trimming
Overwrites(v) == v \notin {Absent, Null} /\ ~IsBlank(v)
\* an empty scalar: missing, null or blank
Empty(v) == v \in {Absent, Null} \/ IsBlank(v)

\* C17: in the merge every scalar field is the returned value when that is
\* non-null and (for a string) non-blank, and the seed's value otherwise; the
\* item list is the returned list when that is non-empty and the seed's list
\* otherwise; so no field that is non-empty in the seed is empty in the result.
C17_MergeKeepsSeed ==
  calc.fn = "openaiExtract" =>
    LET seed == calc.arg.seed
        ret  == calc.arg.out
        fin  == calc.out
    IN  /\ fin.shipment_no =
             IF Overwrites(ret.shipment_no) THEN ret.shipment_no ELSE seed.shipment_no
        /\ fin.total_net_kg =
             IF Overwrites(ret.total_net_kg) THEN ret.total_net_kg ELSE seed.total_net_kg
        /\ fin.items = IF Len(ret.items) > 0 THEN ret.items ELSE seed.items
        /\ ~Empty(seed.shipment_no) => ~Empty(fin.shipment_no)
        /\ ~Empty(seed.total_net_kg) => ~Empty(fin.total_net_kg)
        /\ Len(seed.items) > 0 => Len(fin.items) > 0

\* C17, the case: the seed has every field, the returned record has a blank
\* shipment number, a null total and no items, and the result is the seed.
C17_Witness ==
  /\ calc.fn = "openaiExtract"
  /\ calc.arg.seed = DataA
  /\ calc.arg.out = [shipment_no |-> " ", total_net_kg |-> Null, items |-> <<>>]
  /\ calc.out = DataA

\* the record the deterministic extractor gives for the text of upload r
SeedOf(r) == parseFieldsFromText(up[r].textBest)
\* upload r ends in this step with 200 and its draft holds data
AnswersWith(r, data) ==
  /\ up'[r].pc = "done"
  /\ up'[r].res.code = 200
  /\ up'[r].res.evidence = 0
  /\ \E d \in drafts' : d.id = up'[r].res.draft_id /\ d.data_json = JsonRoundTrip(data)

\* C18: when the reconciliation call throws, or its response parses to
\* nothing, the upload (no I/O error hitting it) is still answered 200 and the
\* draft holds the deterministic extractor's record, with an empty evidence
\* list; the same holds when the collaborator is disabled.
C18_ReconciliationFailureSwallowed ==
  [][\A r \in Uploads :
       /\ (up[r].pc = "llm" /\ up'[r].pc = "done") =>
            \A now \in Clock :
              /\ \A out \in LlmOuts :
                   UploadLlm(r, TRUE, out, now, 0) => AnswersWith(r, SeedOf(r))
              /\ UploadLlm(r, FALSE, EmptyOut, now, 0) => AnswersWith(r, SeedOf(r))
       /\ (up[r].pc = "alternates" /\ up'[r].pc = "done" /\ ~useOpenAI) =>
            \A now \in Clock : UploadAlternates(r, now, 0) => AnswersWith(r, SeedOf(r))]_vars

\* C18, the case: with the collaborator enabled, an upload was answered 200
\* with no evidence and its draft holds the deterministic extractor's record
\* (every non-empty reconciliation answer would have changed that record).
C18_Witness ==
  \E r \in Uploads :
    /\ useOpenAI
    /\ IsDone(r)
    /\ up[r].res.code = 200 /\ up[r].res.evidence = 0
    /\ up[r].doc = "A"
    /\ \E d \in drafts : d.id = up[r].res.draft_id /\ d.data_json = DataA

\* the checks a record passes
ChecksPassed(f) == {c \in ScoreChecks : Passes(f, c)}

C20_ScoreMonotone ==
  (calc.fn = "validateAndScore" /\ calc.arg.evidence = 0) =>
    LET mine == ChecksPassed(calc.arg.f)
    IN  \A g \in ScoreInputs :
          LET theirs == ChecksPassed(g)
          IN  /\ mine \subseteq theirs => calc.out.score <= validateAndScore(g).score
              /\ theirs \subseteq mine => validateAndScore(g).score <= calc.out.score

\* C20, the case: the scored record passes the shipment number and HS code
\* checks only (score 20); a record passing these and more scores higher and
\* one passing only the HS code check scores lower.
C20_Witness ==
  /\ calc.fn = "validateAndScore" /\ calc.arg.evidence = 0
  /\ ChecksPassed(calc.arg.f) = {"shipment_no", "hs_code"}
  /\ calc.out.score = 20
  /\ \E g \in ScoreInputs :
       /\ ChecksPassed(calc.arg.f) \subseteq ChecksPassed(g)
       /\ validateAndScore(g).score > 20
  /\ \E g \in ScoreInputs :
       /\ ChecksPassed(g) = {"hs_code"}
       /\ validateAndScore(g).score < 20

\* C21: every check of validateAndScore that a record fails appends a
\* warning, so the warnings returned are as many as the checks not passed;
\* and a failed check withholds only its own points: the score is the clamped
\* sum of the points of the checks passed.
C21_WarningPerFailedCheck ==
  calc.fn = "validateAndScore" =>
    /\ Len(calc.out.warnings) = Cardinality(ScoreChecks \ ChecksPassed(calc.arg.f))
    /\ calc.out.score = Clamp(SumPoints(ChecksPassed(calc.arg.f)))

\* C22: by the time an upload has answered, on every exit path, it has
\* removed every temporary directory and file it created (the input.pdf
\* workspaces, the page images and their preprocessed copies).
C22_TemporaryFilesRemoved ==
  \A r \in Uploads : IsDone(r) => up[r].tmp = {}

(* ------------------------------ termination --------------------------- *)
\* What makes an upload move.  The handler sets no timer and execFile is
\* called without a timeout (lines 324, 1485), so the continuation after
\* `await extractTextFromBuffer` runs when, and only when, the extraction
\* tools complete: nothing in the code makes that step happen.  The later
\* steps are taken here to complete (the alternates' pdftotext and pdf-parse
\* settle, the reconciliation service answers or throws), after which the
\* event loop runs the continuation.
ToolsSettle(r) == \E now \in Clock, ioFail \in 0..2 : UploadAlternates(r, now, ioFail)
ServiceSettles(r) ==
  \E threw \in BOOLEAN, out \in LlmOuts, now \in Clock, ioFail \in 0..2 :
    UploadLlm(r, threw, out, now, ioFail)
SpecTools ==
  /\ Init /\ [][Next]_vars
  /\ \A r \in Uploads : WF_vars(ToolsSettle(r)) /\ WF_vars(ServiceSettles(r))

\* C23: every upload request that has arrived is eventually answered, even
\* when an extraction tool never completes.
C23_UploadEventuallyAnswered ==
  \A r \in Uploads : (up[r].pc = "extract") ~> IsDone(r)

\* the reason an upload was refused with, as the caller can tell it
Reason(r) == <<up[r].res.code, up[r].res.error>>

\* C24: an upload whose payload is not a PDF fails, with a reason that is
\* neither the one given for a request without a file nor the one given for a
\* PDF from which no text could be recovered, and it creates no draft.
C24_UnsupportedFormatDistinct ==
  \A r \in Uploads :
    (IsDone(r) /\ up[r].doc = NotPdf) =>
      /\ up[r].res.code # 200
      /\ \A d \in drafts : d.base_hash # Sha256(NotPdf)
      /\ \A q \in Uploads :
           (IsDone(q) /\ up[q].doc # NotPdf /\ up[q].res.code \in {400, 422}) =>
             Reason(q) # Reason(r)

\* the first line of a text that holds the totals anchor
FirstAnchor(lines, i) ==
  /\ i \in DOMAIN lines
  /\ lines[i].anchor
  /\ \A j \in DOMAIN lines : j < i => ~lines[j].anchor

\* C25: of a text without the totals anchor parseFieldsFromText returns
\* total_net_kg, total_pkgs and total_gross_kg all null, never 0; of a text
\* with the anchor all three are non-null and are those of the first anchor.
C25_TotalsNullWithoutAnchor ==
  calc.fn = "parseTotals" =>
    LET lines == calc.arg
        out   == calc.out
    IN  /\ (\A i \in DOMAIN lines : ~lines[i].anchor) =>
              /\ out.total_net_kg = FloatNull
              /\ out.total_pkgs = FloatNull
              /\ out.total_gross_kg = FloatNull
        /\ \A i \in DOMAIN lines :
             FirstAnchor(lines, i) =>
               /\ out.total_net_kg = Quantity(lines[i].net)
               /\ out.total_pkgs = parseInt(lines[i].pkgs)
               /\ out.total_gross_kg = Quantity(lines[i].gross)
               /\ FloatNull \notin {out.total_net_kg, out.total_pkgs, out.total_gross_kg}

\* C25, the case: a text of two lines, neither with the anchor, gave three
\* nulls.
C25_Witness ==
  /\ calc.fn = "parseTotals"
  /\ calc.arg = <<OtherLine, OtherLine>>
  /\ calc.out = [total_net_kg |-> FloatNull, total_pkgs |-> FloatNull,
                 total_gross_kg |-> FloatNull]

\* C26: a quantity is read with every '.' removed and ',' as the decimal
\* point: '24.500,75' is 24500.75, '1.234.567,5' is 1234567.5, and the anchor
\* 'TOTAL 10.000,00 KG 400 10.340,00 KG' gives 10000, 400 and 10340
\* (kilograms in hundredths).
C26_LocaleQuantities ==
  calc.fn = "parseTotals" =>
    \A i \in DOMAIN calc.arg :
      FirstAnchor(calc.arg, i) =>
        LET line == calc.arg[i]
            out  == calc.out
        IN  /\ line.net = Q24500c75 => out.total_net_kg = Float(2450075)
            /\ line.gross = Q24500c75 => out.total_gross_kg = Float(2450075)
            /\ line.gross = Q1234567c5 => out.total_gross_kg = Float(123456750)
            /\ line = TotalLine(Q10000, Q400, Q10340) =>
                 /\ out.total_net_kg = Float(1000000)
                 /\ out.total_pkgs = Float(400)
                 /\ out.total_gross_kg = Float(1034000)

\* C26, the case: the totals line of the example was parsed, a line with
\* other totals following it.
C26_Witness ==
  /\ calc.fn = "parseTotals"
  /\ calc.arg = <<TotalLine(Q10000, Q400, Q10340), TotalLine(Q24500c75, Q400, Q1234567c5)>>
  /\ calc.out = [total_net_kg |-> Float(1000000), total_pkgs |-> Float(400),
                 total_gross_kg |-> Float(1034000)]

\* C27: the address split follows the two-branch rule for every list of
\* lines.  When the last line is alphabetic-only it is the country and the
\* line before it is split into postal and city; otherwise the last line is
\* split into postal and city when it has that form, and the country is
\* empty.  The remaining lines, in order, are the street: every line is the
\* country, the line split into postal and city, or part of the street.
C27_AddressSplit ==
  (calc.fn = "parseShippingPoint" /\ calc.arg # <<>>) =>
    LET lines == calc.arg
        out   == calc.out
        n     == Len(lines)
        last  == lines[n]
        prev  == IF n >= 2 THEN lines[n - 1] ELSE NoLine
        split == IF last.alpha THEN prev ELSE last
        used  == (IF last.alpha THEN {n} ELSE {})
                   \cup (IF PostalCity(split) THEN {IF last.alpha THEN n - 1 ELSE n} ELSE {})
    IN  /\ out.country = IF last.alpha THEN last.s ELSE ""
        /\ out.postal = split.postal
        /\ out.city = split.city
        /\ out.street = [i \in 1..(n - Cardinality(used)) |-> lines[i].s]

============================================================================
